---- MODULE Spec2Model ----
(***************************************************************************)
(* Model of src/src/oacc_example.cpp: the strongly typed, order            *)
(* independent configuration builder (generate_model_config), the per-kind *)
(* update overloads of model_config, and the validator model_config_type   *)
(* with its dependent defaults and its two static assertions.              *)
(*                                                                         *)
(* uint64_t is modelled as an unsigned word of WordBits bits; every        *)
(* arithmetic operation of the code is reduced modulo 2^WordBits.          *)
(***************************************************************************)
EXTENDS Integers, Naturals, Sequences, FiniteSets, TLC

\* Width of the unsigned word that stands for uint64_t.
WordBits == 11

\* Largest number of options passed to one generate_model_config call.
MaxArgs == 3

Modulus == 2 ^ WordBits

\* std::numeric_limits<uint64_t>::max(), the "unset" sentinel.
UINT64_MAX == Modulus - 1

\* Outcome of an integer division whose divisor is zero.
DivisionByZero == 0 - 1

\* The nine wrapper types, in the order of the fields of model_config.
Kinds ==
    <<"exceptions", "max_context_length", "max_prompt_length",
      "max_generation_length", "max_batch_size", "gpu_count", "gpu_rank",
      "benchmark", "dev">>

KindSet == {Kinds[i] : i \in 1..Len(Kinds)}

\* The defaults with max_prompt_length value-initialised like gpu_rank,
\* instead of initialised with the sentinel.
model_config_value_initialised ==
    [exceptions            |-> 0,
     max_context_length    |-> 1024,
     max_prompt_length     |-> 0,
     max_generation_length |-> UINT64_MAX,
     max_batch_size        |-> 1,
     gpu_count             |-> 1,
     gpu_rank              |-> 0,
     benchmark             |-> 0,
     dev                   |-> 0]

\* A default-constructed model_config (the default member initialisers).
\* Flags hold the underlying value of their bool enum: disabled 0, enabled 1.
model_config ==
    [exceptions            |-> 0,
     max_context_length    |-> 1024,
     max_prompt_length     |-> UINT64_MAX,
     max_generation_length |-> UINT64_MAX,
     max_batch_size        |-> 1,
     gpu_count             |-> 1,
     gpu_rank              |-> 0,
     benchmark             |-> 0,
     dev                   |-> 0]

\* A slip in one overload: the gpu_rank overload also overwrites gpu_count.
update_crossover(this, value) ==
    IF value.kind = "gpu_rank"
    THEN [this EXCEPT !.gpu_rank = value.value, !.gpu_count = value.value]
    ELSE [this EXCEPT ![value.kind] = value.value]

\* A slip in one overload: the max_prompt_length overload assigns the
\* max_generation_length field.
update_wrong_field(this, value) ==
    IF value.kind = "max_prompt_length"
    THEN [this EXCEPT !.max_generation_length = value.value]
    ELSE [this EXCEPT ![value.kind] = value.value]

\* model_config::update: overload resolution on the wrapper type of the
\* argument selects the one overload that copies *this and assigns the
\* field of that type.
update(this, value) ==
    CASE value.kind = "exceptions" ->
            [this EXCEPT !.exceptions = value.value]
      [] value.kind = "max_context_length" ->
            [this EXCEPT !.max_context_length = value.value]
      [] value.kind = "gpu_rank" ->
            [this EXCEPT !.gpu_rank = value.value]
      [] value.kind = "gpu_count" ->
            [this EXCEPT !.gpu_count = value.value]
      [] value.kind = "max_prompt_length" ->
            [this EXCEPT !.max_prompt_length = value.value]
      [] value.kind = "max_generation_length" ->
            [this EXCEPT !.max_generation_length = value.value]
      [] value.kind = "max_batch_size" ->
            [this EXCEPT !.max_batch_size = value.value]
      [] value.kind = "benchmark" ->
            [this EXCEPT !.benchmark = value.value]
      [] value.kind = "dev" ->
            [this EXCEPT !.dev = value.value]

\* type_occurrence_count<search_type, check_types...>: how many types of the
\* pack are the same type as search_type.
type_occurrence_count(search_type, check_types) ==
    Cardinality({i \in 1..Len(check_types) :
                    check_types[i].kind = search_type.kind})

\* A uniqueness test that only compares neighbouring parameters.
unique_adjacent_only(arg_types) ==
    \A i \in 1..Len(arg_types) :
        i < Len(arg_types) => arg_types[i].kind /= arg_types[i + 1].kind

\* concept unique_configuration_types: every type of the pack occurs in the
\* pack exactly once (an empty pack satisfies the empty conjunction).
unique_configuration_types(arg_types) ==
    \A i \in 1..Len(arg_types) :
        type_occurrence_count(arg_types[i], arg_types) = 1

\* The fold expression ((config_new = config_new.update(args)), ...):
\* the updates are applied left to right.
RECURSIVE fold_update(_, _)
fold_update(config_new, args) ==
    IF Len(args) = 0
    THEN config_new
    ELSE fold_update(update(config_new, Head(args)), Tail(args))

\* The type-constraint of template<unique_configuration_types... arg_types>:
\* on a pack it is the conjunction of the concept applied to each type on
\* its own, (unique_configuration_types<arg_types> && ...).
type_constraint(arg_types) ==
    \A i \in 1..Len(arg_types) :
        unique_configuration_types(<<arg_types[i]>>)

\* The call has no viable overload: the type-constraint is not satisfied.
NotViable ==
    [error |-> "constraints_not_satisfied", updates |-> 0, config |-> <<>>]

\* The static_assert that opens the body fails on the whole pack: the
\* instantiation is ill-formed with duplicate_type_input, the call is not a
\* constant expression, no update is evaluated and nothing is returned.
Rejected ==
    [error |-> "duplicate_type_input", updates |-> 0, config |-> <<>>]

\* The layered overload with the uniqueness test extended to the base: an
\* option whose field the base already overrides is counted as a duplicate.
generate_model_config_base_strict(config_new, args) ==
    IF ~type_constraint(args)
    THEN NotViable
    ELSE IF (~unique_configuration_types(args))
            \/ (\E i \in 1..Len(args) :
                    config_new[args[i].kind] /= model_config[args[i].kind])
    THEN Rejected
    ELSE [error   |-> "none",
          updates |-> Len(args),
          config  |-> <<fold_update(config_new, args)>>]

\* generate_model_config(model_config config_new, arg_types... args): the
\* static_assert on the whole pack, then the fold over the given base.
generate_model_config_base(config_new, args) ==
    IF ~type_constraint(args)
    THEN NotViable
    ELSE IF ~unique_configuration_types(args)
    THEN Rejected
    ELSE [error   |-> "none",
          updates |-> Len(args),
          config  |-> <<fold_update(config_new, args)>>]

\* generate_model_config(arg_types... args): the static_assert on the whole
\* pack, then the fold over a default-constructed model_config.
generate_model_config(args) ==
    IF ~type_constraint(args)
    THEN NotViable
    ELSE IF ~unique_configuration_types(args)
    THEN Rejected
    ELSE [error   |-> "none",
          updates |-> Len(args),
          config  |-> <<fold_update(model_config, args)>>]

\* A rounding division that adds the whole divisor before dividing.
ceil_div_round_up(a, b) ==
    IF b = 0 THEN DivisionByZero ELSE ((a + b) % Modulus) \div b

\* ceil_div: (a + b - 1) / b in unsigned arithmetic (the sum wraps around).
ceil_div(a, b) ==
    IF b = 0 THEN DivisionByZero ELSE ((a + b - 1) % Modulus) \div b

\* The dependent default with the arguments of ceil_div exchanged.
get_updated_value_swapped(value_01, value_02) ==
    IF value_01 = UINT64_MAX THEN ceil_div(2, value_02) ELSE value_01

\* get_updated_value<value_01, value_02>: the sentinel UINT64_MAX is replaced
\* by ceil_div(value_02, 2), any other value is kept.
get_updated_value(value_01, value_02) ==
    IF value_01 = UINT64_MAX THEN ceil_div(value_02, 2) ELSE value_01

\* static_cast<bool> of a flag enum.
to_bool(flag) == flag /= 0

\* The static members of model_config_type<config>.
model_config_type(config) ==
    [exceptions            |-> to_bool(config.exceptions),
     max_context_length    |-> config.max_context_length,
     max_prompt_length     |->
        get_updated_value(config.max_prompt_length, config.max_context_length),
     max_generation_length |->
        get_updated_value(config.max_generation_length,
                          config.max_context_length),
     max_batch_size        |-> config.max_batch_size,
     gpu_count             |-> config.gpu_count,
     gpu_rank              |-> config.gpu_rank,
     benchmark             |-> to_bool(config.benchmark),
     dev                   |-> to_bool(config.dev)]

\* The first static_assert of model_config_type.
context_length_ok(r) == r.max_context_length > 1

\* The second static_assert: the sum is an unsigned sum and wraps around.
sum_ok(r) ==
    ((r.max_generation_length + r.max_prompt_length) % Modulus)
        <= r.max_context_length

\* The two assertions evaluated in the opposite order.
failed_static_asserts_swapped(r) ==
    (IF sum_ok(r) THEN <<>>
     ELSE <<"prompt_length_or_generation_length_too_large">>)
    \o (IF context_length_ok(r) THEN <<>> ELSE <<"context_length_too_short">>)

\* The static assertions that fail, in declaration order; the first element
\* is the error the instantiation is rejected with.
failed_static_asserts(r) ==
    (IF context_length_ok(r) THEN <<>> ELSE <<"context_length_too_short">>)
    \o (IF sum_ok(r) THEN <<>>
        ELSE <<"prompt_length_or_generation_length_too_large">>)

\* A member initialiser divided by zero: not a constant expression.
division_fault(r) ==
    \/ r.max_prompt_length = DivisionByZero
    \/ r.max_generation_length = DivisionByZero

----------------------------------------------------------------------------
(* The inputs the program is run on.                                       *)

\* The values an option of each kind is given in a call.
OptionValues ==
    [exceptions            |-> {1},
     max_context_length    |-> {10, 23},
     max_prompt_length     |-> {6},
     max_generation_length |-> {6},
     max_batch_size        |-> {23},
     gpu_count             |-> {2},
     gpu_rank              |-> {3},
     benchmark             |-> {0},
     dev                   |-> {0, 1}]

Options ==
    UNION {{[kind |-> k, value |-> v] : v \in OptionValues[k]} : k \in KindSet}

\* The parameter packs of at most MaxArgs options, duplicates included.
ArgLists == UNION {[1..n -> Options] : n \in 0..MaxArgs}

\* model_config objects written by aggregate initialisation, used as *this
\* of update and as the base of the layered overload.
BaseConfigs ==
    {model_config,
     [exceptions |-> 1, max_context_length |-> 100, max_prompt_length |-> 50,
      max_generation_length |-> 50, max_batch_size |-> 8, gpu_count |-> 4,
      gpu_rank |-> 1, benchmark |-> 1, dev |-> 1],
     [model_config EXCEPT !.max_context_length = 2, !.max_prompt_length = 1,
                          !.max_generation_length = 1]}

\* Explicit prompt and generation lengths given to the validator.
LengthSamples ==
    {0, 1, 2, 6, 50, UINT64_MAX \div 2, UINT64_MAX \div 2 + 1, UINT64_MAX - 1,
     UINT64_MAX}

\* Two settings of the fields the validator only copies.
OtherFieldSettings ==
    {model_config,
     [model_config EXCEPT !.exceptions = 1, !.max_batch_size = 23,
                          !.gpu_count = 2, !.gpu_rank = 1,
                          !.benchmark = 1, !.dev = 1]}

----------------------------------------------------------------------------
VARIABLES
    pc,        \* "main", "built", "rejected" or "validated"
    op,        \* the operation that produced config
    args,      \* the parameter pack of that operation
    base,      \* the model_config object at hand (*this, or the base argument)
    config,    \* <<c>>: the constexpr configuration produced; <<>>: none
    error,     \* "none" or "duplicate_type_input"
    updates,   \* number of update calls evaluated by the operation
    resolved,  \* <<r>>: the static members of model_config_type<config>
    errors,    \* the failed static assertions, in declaration order
    fault      \* a member initialiser divided by zero

vars ==
    <<pc, op, args, base, config, error, updates, resolved, errors, fault>>

Init ==
    /\ pc = "main"
    /\ op = "none"
    /\ args = <<>>
    /\ base \in BaseConfigs
    /\ config = <<>>
    /\ error = "none"
    /\ updates = 0
    /\ resolved = <<>>
    /\ errors = <<>>
    /\ fault = FALSE

\* static constexpr auto c = generate_model_config(args...);
GenerateModelConfig ==
    /\ pc = "main"
    /\ \E a \in ArgLists :
        LET r == generate_model_config(a) IN
        /\ args' = a
        /\ config' = r.config
        /\ error' = r.error
        /\ updates' = r.updates
        /\ pc' = IF r.error = "none" THEN "built" ELSE "rejected"
    /\ op' = "generate_model_config"
    /\ UNCHANGED <<base, resolved, errors, fault>>

\* static constexpr auto c = generate_model_config(base, args...);
GenerateModelConfigBase ==
    /\ pc = "main"
    /\ \E a \in ArgLists :
        LET r == generate_model_config_base(base, a) IN
        /\ args' = a
        /\ config' = r.config
        /\ error' = r.error
        /\ updates' = r.updates
        /\ pc' = IF r.error = "none" THEN "built" ELSE "rejected"
    /\ op' = "generate_model_config_base"
    /\ UNCHANGED <<base, resolved, errors, fault>>

\* static constexpr auto c = base.update(value);   (update is a const member)
Update ==
    /\ pc = "main"
    /\ \E value \in Options :
        /\ args' = <<value>>
        /\ config' = <<update(base, value)>>
    /\ error' = "none"
    /\ updates' = 1
    /\ pc' = "built"
    /\ op' = "update"
    /\ UNCHANGED <<base, resolved, errors, fault>>

\* using t = model_config_type<c>;  the members are computed and the two
\* static assertions are evaluated.
ModelConfigType ==
    /\ pc = "built"
    /\ LET r == model_config_type(config[1]) IN
        /\ resolved' = <<r>>
        /\ errors' = failed_static_asserts(r)
        /\ fault' = division_fault(r)
    /\ pc' = "validated"
    /\ UNCHANGED <<op, args, base, config, error, updates>>

Next ==
    \/ GenerateModelConfig
    \/ GenerateModelConfigBase
    \/ Update
    \/ ModelConfigType

Spec == Init /\ [][Next]_vars

\* The validator alone, instantiated with every context length of the word,
\* the sampled lengths and the two settings of the other fields.
InitValidate ==
    /\ pc = "built"
    /\ op = "none"
    /\ args = <<>>
    /\ base = model_config
    /\ \E o \in OtherFieldSettings, c \in 0..UINT64_MAX,
          p \in LengthSamples, g \in LengthSamples :
            config = <<[o EXCEPT !.max_context_length = c,
                                 !.max_prompt_length = p,
                                 !.max_generation_length = g]>>
    /\ error = "none"
    /\ updates = 0
    /\ resolved = <<>>
    /\ errors = <<>>
    /\ fault = FALSE

NextValidate == ModelConfigType

SpecValidate == InitValidate /\ [][NextValidate]_vars

----------------------------------------------------------------------------
(* Properties.                                                             *)

\* The reorderings of a parameter pack.
Perms(a) ==
    {[i \in 1..Len(a) |-> a[f[i]]] :
        f \in {g \in [1..Len(a) -> 1..Len(a)] :
                 \A i, j \in 1..Len(a) : g[i] = g[j] => i = j}}

\* Two options of the pack have the same kind.
HasDuplicateKind(a) ==
    \E i, j \in 1..Len(a) : i < j /\ a[i].kind = a[j].kind

\* The exact ceiling of a / b over the integers, b > 0.
TrueCeil(a, b) == IF a % b = 0 THEN a \div b ELSE (a \div b) + 1

Built == op \in {"generate_model_config", "generate_model_config_base"}

\* C1: a call with pairwise distinct kinds returns, for every reordering of
\* its options and over the same base, the configuration it returned.
OrderIndependence ==
    (Built /\ error = "none") =>
        \A p \in Perms(args) :
            /\ op = "generate_model_config" =>
                    generate_model_config(p).config = config
            /\ op = "generate_model_config_base" =>
                    generate_model_config_base(base, p).config = config

\* C1 witness: the call of config_02 in main, three options given out of
\* field order.
OrderIndependenceWitness ==
    /\ op = "generate_model_config"
    /\ error = "none"
    /\ Len(args) = 3
    /\ args[1].kind = "dev"
    /\ args[2].kind = "benchmark"
    /\ args[3].kind = "max_batch_size"

\* C2: a call with two options of one kind is rejected with
\* duplicate_type_input, with no update evaluated and no configuration
\* produced; a call with pairwise distinct kinds (the empty call included)
\* is never rejected.
DuplicateRejection ==
    Built =>
        /\ HasDuplicateKind(args) =>
              /\ error = "duplicate_type_input"
              /\ pc = "rejected"
              /\ updates = 0
              /\ config = <<>>
        /\ ~HasDuplicateKind(args) =>
              /\ error = "none"
              /\ Len(config) = 1

\* C2 witness: a rejected call whose duplicates are not adjacent and carry
\* different values.
DuplicateRejectionWitness ==
    /\ Built
    /\ pc = "rejected"
    /\ Len(args) = 3
    /\ args[1].kind = args[3].kind
    /\ args[1].value /= args[3].value
    /\ args[2].kind /= args[1].kind

\* C3: update returns a configuration whose field of the option's kind is
\* the option's value and whose other eight fields are those of *this, and
\* *this is left as it was.
FrameOfUpdate ==
    [][(pc = "main" /\ op' = "update") =>
          /\ base' = base
          /\ config'[1][args'[1].kind] = args'[1].value
          /\ \A k \in KindSet \ {args'[1].kind} : config'[1][k] = base[k]]_vars

\* C3 witness: an update that changed the value of its field.
FrameOfUpdateWitness ==
    /\ op = "update"
    /\ config[1][args[1].kind] /= base[args[1].kind]
    /\ args[1].kind = "max_prompt_length"

\* C4: with max_context_length > 1, validation fails with
\* prompt_length_or_generation_length_too_large whenever the integer sum of
\* the resolved lengths exceeds max_context_length, and a validated
\* configuration has that sum, and each length, within max_context_length.
SumConstraint ==
    (pc = "validated" /\ resolved[1].max_context_length > 1) =>
        LET r == resolved[1]
            total == r.max_generation_length + r.max_prompt_length
        IN  /\ total > r.max_context_length =>
                errors = <<"prompt_length_or_generation_length_too_large">>
            /\ errors = <<>> =>
                /\ total <= r.max_context_length
                /\ r.max_prompt_length <= r.max_context_length
                /\ r.max_generation_length <= r.max_context_length

\* C5: an unset length resolves to the exact ceiling of
\* max_context_length / 2, a set length to itself.
DependentDefault ==
    pc = "validated" =>
        LET c == config[1]
            r == resolved[1]
        IN  /\ r.max_prompt_length =
                  IF c.max_prompt_length = UINT64_MAX
                  THEN TrueCeil(c.max_context_length, 2)
                  ELSE c.max_prompt_length
            /\ r.max_generation_length =
                  IF c.max_generation_length = UINT64_MAX
                  THEN TrueCeil(c.max_context_length, 2)
                  ELSE c.max_generation_length

DefaultRoundTrip ==
    (op = "generate_model_config" /\ args = <<>>) =>
        /\ config = <<[exceptions            |-> 0,
                       max_context_length    |-> 1024,
                       max_prompt_length     |-> UINT64_MAX,
                       max_generation_length |-> UINT64_MAX,
                       max_batch_size        |-> 1,
                       gpu_count             |-> 1,
                       gpu_rank              |-> 0,
                       benchmark             |-> 0,
                       dev                   |-> 0]>>
        /\ pc = "validated" =>
              /\ errors = <<>>
              /\ ~fault
              /\ resolved = <<[exceptions            |-> FALSE,
                               max_context_length    |-> 1024,
                               max_prompt_length     |-> 512,
                               max_generation_length |-> 512,
                               max_batch_size        |-> 1,
                               gpu_count             |-> 1,
                               gpu_rank              |-> 0,
                               benchmark             |-> FALSE,
                               dev                   |-> FALSE]>>

\* C7 witness: config_01 of main, validated.
DefaultRoundTripWitness ==
    /\ op = "generate_model_config"
    /\ args = <<>>
    /\ pc = "validated"
    /\ resolved[1].max_prompt_length = 512

\* C8: the layered call is rejected only for duplicates among its options;
\* its result has each option's value in the option's field and the base's
\* value elsewhere; the call without base equals the layered call over the
\* default configuration.
LayeredBuild ==
    /\ (op = "generate_model_config_base" /\ ~HasDuplicateKind(args)) =>
          /\ error = "none"
          /\ Len(config) = 1
          /\ \A k \in KindSet :
                IF \E i \in 1..Len(args) : args[i].kind = k
                THEN \E i \in 1..Len(args) :
                        args[i].kind = k /\ config[1][k] = args[i].value
                ELSE config[1][k] = base[k]
    /\ (op = "generate_model_config" /\ ~HasDuplicateKind(args)) =>
          /\ error = "none"
          /\ config = generate_model_config_base(model_config, args).config

\* C8 witness: an option overrides a field the base had already moved off
\* its default, next to a field the base keeps.
LayeredBuildWitness ==
    /\ op = "generate_model_config_base"
    /\ error = "none"
    /\ Len(args) = 2
    /\ base[args[1].kind] /= model_config[args[1].kind]
    /\ base[args[1].kind] /= args[1].value
    /\ config[1][args[1].kind] = args[1].value
    /\ base.gpu_count /= model_config.gpu_count
    /\ config[1].gpu_count = base.gpu_count

\* C9: no member initialiser divides by zero, and max_context_length = 0
\* ends in context_length_too_short.
NoDivisionByZero ==
    pc = "validated" =>
        /\ ~fault
        /\ resolved[1].max_prompt_length /= DivisionByZero
        /\ resolved[1].max_generation_length /= DivisionByZero
        /\ config[1].max_context_length = 0 =>
              /\ errors /= <<>>
              /\ Head(errors) = "context_length_too_short"
              /\ (config[1].max_prompt_length = UINT64_MAX =>
                    resolved[1].max_prompt_length = 0)

\* C9 witness: max_context_length = 0 validated with both lengths unset.
NoDivisionByZeroWitness ==
    /\ pc = "validated"
    /\ config[1].max_context_length = 0
    /\ config[1].max_prompt_length = UINT64_MAX
    /\ config[1].max_generation_length = UINT64_MAX
    /\ resolved[1].max_prompt_length = 0

\* C10: with both lengths unset, an even max_context_length c >= 2 passes
\* with both lengths c / 2, and an odd c with 3 <= c < UINT64_MAX fails with
\* prompt_length_or_generation_length_too_large, the defaults summing to
\* c + 1.
BothUnsetOutcome ==
    (/\ pc = "validated"
     /\ config[1].max_prompt_length = UINT64_MAX
     /\ config[1].max_generation_length = UINT64_MAX) =>
        LET c == config[1].max_context_length
            r == resolved[1]
        IN  /\ (c % 2 = 0 /\ c >= 2) =>
                  /\ errors = <<>>
                  /\ r.max_prompt_length = c \div 2
                  /\ r.max_generation_length = c \div 2
                  /\ r.max_prompt_length + r.max_generation_length = c
            /\ (c % 2 = 1 /\ c >= 3 /\ c < UINT64_MAX) =>
                  /\ errors = <<"prompt_length_or_generation_length_too_large">>
                  /\ r.max_prompt_length + r.max_generation_length = c + 1

\* C10 witness: config_03 of main (max_context_length = 23, lengths unset)
\* fails the sum assertion.
BothUnsetOutcomeWitness ==
    /\ pc = "validated"
    /\ config[1].max_context_length = 23
    /\ config[1].max_prompt_length = UINT64_MAX
    /\ config[1].max_generation_length = UINT64_MAX
    /\ errors = <<"prompt_length_or_generation_length_too_large">>

====
